---- MODULE Spec2Model ----
(***************************************************************************)
(* Model of src/app.py: the transcript cleaner (clean_subtitles) as a pure *)
(* operator over sequences of characters, and the download call            *)
(* (download -> download_audio_and_subtitles -> cleanup_files) as a state  *)
(* machine over the shared workspace directory /tmp/audio.                 *)
(*                                                                         *)
(* A Python str is modelled as a sequence of one-character strings.        *)
(***************************************************************************)
EXTENDS Naturals, Sequences, FiniteSets

\* ------------------------------------------------------------------------
\* Bounds
\* ------------------------------------------------------------------------

\* Longest caption document, counted in pieces (see Pieces below).
MaxPieces == 3

\* Number of calls of download, whose steps may interleave.
NumCalls == 2

\* ------------------------------------------------------------------------
\* Characters and literals of clean_subtitles (src/app.py:17-35)
\* ------------------------------------------------------------------------

\* \d of the regular expression on line 32.
IsDigit(ch) == ch \in {"0", "1", "2", "3", "4", "5", "6", "7", "8", "9"}

\* \s of line 34 and the characters str.strip() removes on line 35,
\* restricted to the whitespace characters of the model's alphabet.
IsSpace(ch) == ch \in {" ", "\n", "\t"}

\* 'WEBVTT' (line 20), 'Kind:' (line 22), 'Language:' (line 24).
WEBVTT == <<"W","E","B","V","T","T">>
Kind == <<"K","i","n","d",":">>
Language == <<"L","a","n","g","u","a","g","e",":">>

\* The literal prefix 'align:start position:' of the pattern on line 33.
AlignPrefix == <<"a","l","i","g","n",":","s","t","a","r","t"," ","p","o","s","i","t","i","o","n",":">>

\* The pattern \d{2}:\d{2}:\d{2}\.\d{3} --> \d{2}:\d{2}:\d{2}\.\d{3} of
\* line 32, position by position; "\\d" stands for the class \d.
TimestampPattern ==
  <<"\\d","\\d",":","\\d","\\d",":","\\d","\\d",".","\\d","\\d","\\d",
    " ","-","-",">"," ",
    "\\d","\\d",":","\\d","\\d",":","\\d","\\d",".","\\d","\\d","\\d">>

\* ------------------------------------------------------------------------
\* String helpers (Python built-ins used by clean_subtitles)
\* ------------------------------------------------------------------------

Min(S) == CHOOSE x \in S : \A y \in S : x <= y
Max(S) == CHOOSE x \in S : \A y \in S : x >= y

\* Index of the first occurrence of ch in s at or after position i, 0 if none.
IndexFrom(s, ch, i) ==
  LET S == {j \in i..Len(s) : s[j] = ch}
  IN  IF S = {} THEN 0 ELSE Min(S)

\* `prefix in line` in place of line.startswith(prefix).
startswith_Contains(line, prefix) ==
  \E i \in 1..(Len(line) - Len(prefix) + 1) :
    SubSeq(line, i, i + Len(prefix) - 1) = prefix

\* str.startswith (lines 20, 22, 24).
startswith(line, prefix) ==
  /\ Len(line) >= Len(prefix)
  /\ SubSeq(line, 1, Len(prefix)) = prefix

\* A Python str: a sequence of characters.  The passes of clean_subtitles
\* are functions on Str, so that each is applied to the value of the
\* previous pass.
Str == Seq(STRING)

\* str.splitlines (line 18): split at "\n"; a trailing "\n" opens no line.
SplitLines[s \in Str] ==
  IF s = <<>> THEN <<>>
  ELSE IF IndexFrom(s, "\n", 1) = 0 THEN <<s>>
  ELSE <<SubSeq(s, 1, IndexFrom(s, "\n", 1) - 1)>>
         \o SplitLines[SubSeq(s, IndexFrom(s, "\n", 1) + 1, Len(s))]

splitlines(s) == SplitLines[s]

\* '\n'.join(lines) (line 28).
Join[lines \in Seq(Str)] ==
  IF lines = <<>> THEN <<>>
  ELSE IF Len(lines) = 1 THEN lines[1]
  ELSE lines[1] \o <<"\n">> \o Join[Tail(lines)]

join(lines) == Join[lines]

\* lines.pop(0) when the first line starts with prefix (lines 20-25).
PopIfStartsWith(lines, prefix) ==
  IF lines # <<>> /\ startswith(lines[1], prefix) THEN Tail(lines) ELSE lines

\* Lines 19-25: the three header checks, each on the current first line.
HeaderStripped[lines \in Seq(Str)] ==
  PopIfStartsWith(PopIfStartsWith(PopIfStartsWith(lines, WEBVTT), Kind), Language)

\* The three checks chained as if / elif / elif: at most one line is dropped.
StripHeader_Elif(lines) ==
  IF lines # <<>> /\ startswith(lines[1], WEBVTT) THEN Tail(lines)
  ELSE IF lines # <<>> /\ startswith(lines[1], Kind) THEN Tail(lines)
  ELSE PopIfStartsWith(lines, Language)

StripHeader(lines) == HeaderStripped[lines]

\* ------------------------------------------------------------------------
\* The four re.sub passes and strip (lines 31-35)
\* ------------------------------------------------------------------------

\* The greedy pattern <.+> in place of <[^>]+>: the match runs to the last
\* ">" of the line.
TagEnd_Greedy(s, i) ==
  LET nl == IndexFrom(s, "\n", i)
      S == {j \in (i + 2)..(IF nl = 0 THEN Len(s) ELSE nl - 1) : s[j] = ">"}
  IN  IF s[i] = "<" /\ S # {} THEN Max(S) ELSE 0

\* End of the match of <[^>]+> that starts at i, 0 if there is none: the
\* match runs to the first ">" after i, and needs one character in between.
TagEnd(s, i) ==
  IF s[i] # "<" THEN 0
  ELSE LET j == IndexFrom(s, ">", i + 1)
       IN  IF j > i + 1 THEN j ELSE 0

\* End of the match of the timestamp pattern that starts at i, 0 if none.
TimestampEnd(s, i) ==
  IF /\ i + Len(TimestampPattern) - 1 <= Len(s)
     /\ \A k \in 1..Len(TimestampPattern) :
          IF TimestampPattern[k] = "\\d" THEN IsDigit(s[i + k - 1])
          ELSE s[i + k - 1] = TimestampPattern[k]
  THEN i + Len(TimestampPattern) - 1
  ELSE 0

\* End of the match of align:start position:[^%]+% that starts at i, 0 if
\* none: after the literal, one or more characters other than "%" (newlines
\* included), up to the first "%".
AlignEnd(s, i) ==
  LET p == i + Len(AlignPrefix)
  IN  IF /\ p <= Len(s)
         /\ SubSeq(s, i, p - 1) = AlignPrefix
         /\ s[p] # "%"
      THEN IndexFrom(s, "%", p + 1)
      ELSE 0

\* Start of the leftmost match at or after i, 0 if there is none; End(s, j)
\* is the end of the match starting at j, or 0.
FirstTagFrom(s, i) ==
  LET S == {j \in i..Len(s) : TagEnd(s, j) > 0}
  IN  IF S = {} THEN 0 ELSE Min(S)

FirstTimestampFrom(s, i) ==
  LET S == {j \in i..Len(s) : TimestampEnd(s, j) > 0}
  IN  IF S = {} THEN 0 ELSE Min(S)

FirstAlignFrom(s, i) ==
  LET S == {j \in i..Len(s) : AlignEnd(s, j) > 0}
  IN  IF S = {} THEN 0 ELSE Min(S)

FirstSpaceFrom(s, i) ==
  LET S == {j \in i..Len(s) : IsSpace(s[j])}
  IN  IF S = {} THEN 0 ELSE Min(S)

\* End of the maximal run of whitespace that starts at i.
SpaceRunEnd(s, i) ==
  LET S == {j \in i..Len(s) : ~IsSpace(s[j])}
  IN  IF S = {} THEN Len(s) ELSE Min(S) - 1

\* re.sub(r'<[^>]+>', '', s) (line 31): the leftmost match is removed, and
\* the scan resumes right after it (non-overlapping matches).
SubTags[s \in Str] ==
  IF FirstTagFrom(s, 1) = 0 THEN s
  ELSE SubSeq(s, 1, FirstTagFrom(s, 1) - 1)
         \o SubTags[SubSeq(s, TagEnd(s, FirstTagFrom(s, 1)) + 1, Len(s))]

sub_tags(s) == SubTags[s]

\* re.sub of the timestamp pattern (line 32).
SubTimestamps[s \in Str] ==
  IF FirstTimestampFrom(s, 1) = 0 THEN s
  ELSE SubSeq(s, 1, FirstTimestampFrom(s, 1) - 1)
         \o SubTimestamps[SubSeq(s, TimestampEnd(s, FirstTimestampFrom(s, 1)) + 1, Len(s))]

sub_timestamps(s) == SubTimestamps[s]

\* re.sub(r'align:start position:[^%]+%', '', s) (line 33).
SubAlign[s \in Str] ==
  IF FirstAlignFrom(s, 1) = 0 THEN s
  ELSE SubSeq(s, 1, FirstAlignFrom(s, 1) - 1)
         \o SubAlign[SubSeq(s, AlignEnd(s, FirstAlignFrom(s, 1)) + 1, Len(s))]

sub_align(s) == SubAlign[s]

\* re.sub(r'\s+', ' ', s) (line 34): every maximal run becomes one space.
SubWhitespace[s \in Str] ==
  IF FirstSpaceFrom(s, 1) = 0 THEN s
  ELSE SubSeq(s, 1, FirstSpaceFrom(s, 1) - 1) \o <<" ">>
         \o SubWhitespace[SubSeq(s, SpaceRunEnd(s, FirstSpaceFrom(s, 1)) + 1, Len(s))]

sub_whitespace(s) == SubWhitespace[s]

\* str.strip() (line 35).
Strip[s \in Str] ==
  IF \A j \in 1..Len(s) : IsSpace(s[j]) THEN <<>>
  ELSE SubSeq(s, Min({j \in 1..Len(s) : ~IsSpace(s[j])}),
                 Max({j \in 1..Len(s) : ~IsSpace(s[j])}))

strip(s) == Strip[s]

\* clean_subtitles with line 33 left out.
clean_subtitles_NoAlign(subtitles) ==
  strip(sub_whitespace(sub_timestamps(sub_tags(
    join(StripHeader(splitlines(subtitles)))))))

\* clean_subtitles (lines 13-37).
clean_subtitles(subtitles) ==
  strip(sub_whitespace(sub_align(sub_timestamps(sub_tags(
    join(StripHeader(splitlines(subtitles))))))))

\* ------------------------------------------------------------------------
\* Pattern occurrence in a string (what re.search of each pattern reports)
\* ------------------------------------------------------------------------

ContainsTag(s) == \E i \in 1..Len(s) : TagEnd(s, i) > 0
ContainsTimestamp(s) == \E i \in 1..Len(s) : TimestampEnd(s, i) > 0
ContainsAlign(s) == \E i \in 1..Len(s) : AlignEnd(s, i) > 0
HasWhitespaceRun(s) == \E i \in 1..(Len(s) - 1) : IsSpace(s[i]) /\ IsSpace(s[i + 1])
IsTrimmed(s) == s = <<>> \/ (~IsSpace(s[1]) /\ ~IsSpace(s[Len(s)]))

\* ------------------------------------------------------------------------
\* Caption documents: the inputs of the cleaner
\* ------------------------------------------------------------------------

\* The pieces a caption document is built from.  1-6 are whole elements of
\* the caption format: a tag, a cue-timing range, a positioning directive,
\* a letter of cue text, a space, a line break.  7-8 are the two halves of
\* a cue-timing range, 9-11 are header lines, 12-13 are lines of cue text
\* with inline tags, 14 is the literal that opens a positioning directive.
Pieces ==
  << <<"<","c",">">>,
     <<"0","0",":","0","0",":","0","1",".","0","0","0"," ","-","-",">"," ","0","0",":","0","0",":","0","2",".","0","0","0">>,
     <<"a","l","i","g","n",":","s","t","a","r","t"," ","p","o","s","i","t","i","o","n",":","0","%">>,
     <<"a">>,
     <<" ">>,
     <<"\n">>,
     <<"0","0",":","0","0",":","0","1",".","0","0","0"," ">>,
     <<"-","-",">"," ","0","0",":","0","0",":","0","2",".","0","0","0">>,
     <<"W","E","B","V","T","T","\n">>,
     <<"K","i","n","d",":"," ","c","a","p","t","i","o","n","s","\n">>,
     <<"L","a","n","g","u","a","g","e",":"," ","e","n","\n">>,
     <<"H","e","l","l","o"," ","<","c",">","w","o","r","l","d","<","/","c",">","\n">>,
     <<"a","<","0","0",":","0","0",":","0","1",".","5","0","0",">","<","c",">"," ","b","<","/","c",">","\n">>,
     <<"a","l","i","g","n",":","s","t","a","r","t"," ","p","o","s","i","t","i","o","n",":">> >>

PieceIds == 1..Len(Pieces)
WholePieceIds == 1..6

\* The documents of at most MaxPieces pieces.
Documents == UNION {[1..n -> PieceIds] : n \in 0..MaxPieces}

\* The text of a document: its pieces, concatenated.
RECURSIVE Text(_)
Text(d) == IF d = <<>> THEN <<>> ELSE Pieces[Head(d)] \o Text(Tail(d))

\* A document made of whole elements only.
IsWhole(d) == \A k \in 1..Len(d) : d[k] \in WholePieceIds

\* Most cue blocks in a well-formed caption document.
MaxCues == 2

\* The header of a well-formed document: any of the lines 'WEBVTT', 'Kind:'
\* and 'Language:', in that order, closed by a blank line when there is one.
Headers ==
  {<<>>, <<9, 6>>, <<10, 6>>, <<11, 6>>, <<9, 10, 6>>, <<9, 11, 6>>,
   <<10, 11, 6>>, <<9, 10, 11, 6>>}

\* The cue-timing line: the range, alone or followed by the directive.
TimingLines == {<<2, 6>>, <<2, 5, 3, 6>>}

\* The lines of cue text, and the words each of them shows.
TextLineIds == {12, 13}

TextLineWords ==
  [k \in TextLineIds |->
     IF k = 12 THEN << <<"H","e","l","l","o">>, <<"w","o","r","l","d">> >>
     ELSE << <<"a">>, <<"b">> >>]

\* The text of a cue: one or two lines.
CueTexts == {<<k>> : k \in TextLineIds} \cup {<<k, l>> : k, l \in TextLineIds}

\* A cue block: the timing line and the text.
CueBlocks == {tl \o tx : tl \in TimingLines, tx \in CueTexts}

\* n cue blocks, a blank line between two of them.
RECURSIVE CueSequences(_)
CueSequences(n) ==
  IF n = 0 THEN {<<>>}
  ELSE IF n = 1 THEN CueBlocks
  ELSE {b \o <<6>> \o r : b \in CueBlocks, r \in CueSequences(n - 1)}

\* The well-formed caption documents of at most MaxCues cue blocks.
WellFormedDocuments ==
  {h \o cs : h \in Headers, cs \in UNION {CueSequences(n) : n \in 0..MaxCues}}

\* The words a well-formed document shows, in order.
RECURSIVE Words(_)
Words(d) ==
  IF d = <<>> THEN <<>>
  ELSE (IF Head(d) \in TextLineIds THEN TextLineWords[Head(d)] ELSE <<>>)
         \o Words(Tail(d))

\* The words joined by single spaces.
RECURSIVE JoinWords(_)
JoinWords(ws) ==
  IF ws = <<>> THEN <<>>
  ELSE IF Len(ws) = 1 THEN ws[1]
  ELSE ws[1] \o <<" ">> \o JoinWords(Tail(ws))

\* ------------------------------------------------------------------------
\* Calls of download and what they surface (src/app.py:46-119)
\* ------------------------------------------------------------------------

\* The calls of download.  download is `async def` with no await, so one
\* event loop runs each call to completion; calls overlap when the service
\* runs several worker processes, which share the file system.
Calls == 1..NumCalls

\* output_path = '/tmp/audio' (line 111): the same path for every call.
output_path(c) == "/tmp/audio"

Paths == {output_path(c) : c \in Calls}

\* The caption track call c's extraction downloads: a header, one cue with
\* a positioning directive, and a cue text that names the call.
CueText == <<"a", "b", "c", "d", "e">>

Doc(c) ==
  Pieces[9] \o Pieces[10] \o Pieces[11] \o Pieces[6]
    \o Pieces[2] \o Pieces[5] \o Pieces[3] \o Pieces[6]
    \o <<"<", "c", ">", CueText[c], "<", "/", "c", ">", "\n">>

\* What a call produces: a returned dict, an HTTPException, or any other
\* exception (by class name in `cause`); NoResult before there is one.  A
\* returned dict is recorded by the track it was cleaned from.
NoResult ==
  [kind |-> "none", status_code |-> 0, detail |-> "", cause |-> "", track |-> 0]

\* return {'subtitles': clean_text} (lines 85-87), clean_text being the
\* cleaned text of the track call k downloaded.
Returned(k) ==
  [kind |-> "return", status_code |-> 200, detail |-> "", cause |-> "", track |-> k]

\* Lines 82-87: the dict a successful call returns.
ResponseBody(result) == [subtitles |-> clean_subtitles(Doc(result.track))]

\* HTTPException(status_code=..., detail=...); cause is the {e} of line 95.
HTTPException(status_code, detail, cause) ==
  [kind |-> "HTTPException", status_code |-> status_code, detail |-> detail,
   cause |-> cause, track |-> 0]

\* An exception that is not an HTTPException, e.g. an OSError.
Raised(class) ==
  [kind |-> "exception", status_code |-> 0, detail |-> "", cause |-> class, track |-> 0]

\* Line 90.
NotFound == HTTPException(404, "No subtitles found for this video.", "")

\* Line 93: the handler of yt_dlp.DownloadError.
ExtractionFailed == HTTPException(400, "Failed to download video or subtitles.", "")

\* A handler that swallows the exception and returns an empty result.
ExceptException_ReturnsEmpty(e) == Returned(0)

\* Lines 94-95: `except Exception as e` catches every exception raised in
\* the try block of line 68, the HTTPException of line 90 included, and
\* raises HTTPException(500) with the message of e.
ExceptException(e) ==
  HTTPException(500, "An error occurred: {e}",
                IF e.kind = "HTTPException" THEN e.detail ELSE e.cause)

\* `finally` of line 117 taken on the normal return only.
AfterTry_SuccessOnly(result) ==
  IF result.kind = "return" THEN "cleanup_exists" ELSE "return"

\* Lines 112-119: whatever line 113 returned or raised, the finally block
\* runs cleanup_files next.
AfterTry(result) == "cleanup_exists"

\* Lines 112-119: what the caller receives.  An exception raised by
\* cleanup_files inside `finally` replaces the return value or the
\* exception in flight; otherwise that one is surfaced (line 114, line 116,
\* or propagation of an exception line 115 does not catch).
Surface(result, error) ==
  IF error # "" THEN Raised(error) ELSE result

\* The outcomes of ydl.extract_info(youtube_url, download=True) (line 71).
ExtractionOutcomes == {"DownloadError", "Exception", "captions", "no_captions"}

\* ------------------------------------------------------------------------
\* State
\* ------------------------------------------------------------------------

VARIABLES
  doc,            \* the caption document handed to the cleaner
  stage,          \* "raw", "cleaned" (clean_subtitles ran once), "recleaned"
  clean_text,     \* clean_subtitles(Text(doc)) once stage # "raw"
  reclean_text,   \* clean_subtitles(clean_text) once stage = "recleaned"
  exists,         \* path -> os.path.exists(path)
  subtitle_file,  \* path -> the call whose track <path>/file.en.vtt holds, 0 if no file
  audio_file,     \* path -> whether <path> holds a downloaded audio file
  pc,             \* call -> the line it executes next
  opened,         \* call -> lines 51-52 have ensured its directory
  extraction,     \* call -> outcome of its extract_info, "none" before
  extract_calls,  \* call -> number of times extract_info was invoked
  artifact,       \* call -> result of os.path.isfile (line 76), "unchecked" before
  subtitles,      \* call -> the call whose track f.read() returned (line 79), 0 before
  pending,        \* call -> what line 113 returned or raised
  close_invoked,  \* call -> cleanup_files was invoked (line 119)
  cleanup_error,  \* call -> class of the exception cleanup_files raised, "" if none
  outcome         \* call -> what the caller received

cleanerVars == <<doc, stage, clean_text, reclean_text>>
fsVars == <<exists, subtitle_file, audio_file>>
callVars == <<pc, opened, extraction, extract_calls, artifact, subtitles,
              pending, close_invoked, cleanup_error, outcome>>
vars == <<doc, stage, clean_text, reclean_text, exists, subtitle_file,
          audio_file, pc, opened, extraction, extract_calls, artifact,
          subtitles, pending, close_invoked, cleanup_error, outcome>>

\* No call has started; /tmp/audio does not exist.
InitCalls ==
  /\ exists = [p \in Paths |-> FALSE]
  /\ subtitle_file = [p \in Paths |-> 0]
  /\ audio_file = [p \in Paths |-> FALSE]
  /\ pc = [c \in Calls |-> "start"]
  /\ opened = [c \in Calls |-> FALSE]
  /\ extraction = [c \in Calls |-> "none"]
  /\ extract_calls = [c \in Calls |-> 0]
  /\ artifact = [c \in Calls |-> "unchecked"]
  /\ subtitles = [c \in Calls |-> 0]
  /\ pending = [c \in Calls |-> NoResult]
  /\ close_invoked = [c \in Calls |-> FALSE]
  /\ cleanup_error = [c \in Calls |-> ""]
  /\ outcome = [c \in Calls |-> NoResult]

\* No document is being cleaned.
InitCleaner ==
  /\ doc = <<>>
  /\ stage = "raw"
  /\ clean_text = <<>>
  /\ reclean_text = <<>>

\* ------------------------------------------------------------------------
\* The cleaner as a state machine: any document, cleaned once, then again
\* ------------------------------------------------------------------------

InitClean ==
  /\ doc \in Documents \cup WellFormedDocuments
  /\ stage = "raw"
  /\ clean_text = <<>>
  /\ reclean_text = <<>>
  /\ InitCalls

\* clean_subtitles applied to the raw document.
Clean ==
  /\ stage = "raw"
  /\ clean_text' = clean_subtitles(Text(doc))
  /\ stage' = "cleaned"
  /\ UNCHANGED <<doc, reclean_text, fsVars, callVars>>

\* clean_subtitles applied to its own output.
Reclean ==
  /\ stage = "cleaned"
  /\ reclean_text' = clean_subtitles(clean_text)
  /\ stage' = "recleaned"
  /\ UNCHANGED <<doc, clean_text, fsVars, callVars>>

NextClean == Clean \/ Reclean

SpecClean == InitClean /\ [][NextClean]_vars

\* ------------------------------------------------------------------------
\* One call of download, step by step
\* ------------------------------------------------------------------------

\* Line 51: os.path.exists(output_path).  A directory that is there is the
\* call's workspace; otherwise line 52 is next.
PathExists(c) ==
  LET p == output_path(c) IN
  /\ pc[c] = "start"
  /\ IF exists[p]
     THEN /\ pc' = [pc EXCEPT ![c] = "extract"]
          /\ opened' = [opened EXCEPT ![c] = TRUE]
     ELSE /\ pc' = [pc EXCEPT ![c] = "makedirs"]
          /\ UNCHANGED opened
  /\ UNCHANGED <<cleanerVars, fsVars, extraction, extract_calls, artifact,
                 subtitles, pending, close_invoked, cleanup_error, outcome>>

\* Line 52: os.makedirs(output_path) raises FileExistsError when the
\* directory has appeared since line 51.  Line 52 is outside the try of
\* line 68, so the exception leaves download_audio_and_subtitles as it is.
MakeDirs(c) ==
  LET p == output_path(c) IN
  /\ pc[c] = "makedirs"
  /\ IF exists[p]
     THEN /\ pending' = [pending EXCEPT ![c] = Raised("FileExistsError")]
          /\ pc' = [pc EXCEPT ![c] = AfterTry(Raised("FileExistsError"))]
          /\ UNCHANGED <<exists, opened>>
     ELSE /\ exists' = [exists EXCEPT ![p] = TRUE]
          /\ opened' = [opened EXCEPT ![c] = TRUE]
          /\ pc' = [pc EXCEPT ![c] = "extract"]
          /\ UNCHANGED pending
  /\ UNCHANGED <<cleanerVars, subtitle_file, audio_file, extraction,
                 extract_calls, artifact, subtitles, close_invoked,
                 cleanup_error, outcome>>

\* Lines 70-71 and 92-95: ydl.extract_info(youtube_url, download=True).
\* DownloadError is turned into the 400 of line 93, any other exception
\* into the 500 of line 95.  yt-dlp creates the directory of its output
\* template when it is missing, writes the caption track before the audio
\* (so a DownloadError may leave a track behind), and either overwrites or
\* keeps a file.en.vtt that is already there.
ExtractInfo(c) ==
  LET p == output_path(c) IN
  /\ pc[c] = "extract"
  /\ \E o \in ExtractionOutcomes, wrote \in BOOLEAN, overwrite \in BOOLEAN :
       LET track == IF subtitle_file[p] = 0 \/ overwrite THEN c ELSE subtitle_file[p]
       IN
       /\ extraction' = [extraction EXCEPT ![c] = o]
       /\ extract_calls' = [extract_calls EXCEPT ![c] = @ + 1]
       /\ CASE o = "captions" ->
                 /\ wrote
                 /\ exists' = [exists EXCEPT ![p] = TRUE]
                 /\ subtitle_file' = [subtitle_file EXCEPT ![p] = track]
                 /\ audio_file' = [audio_file EXCEPT ![p] = TRUE]
                 /\ pc' = [pc EXCEPT ![c] = "isfile"]
                 /\ UNCHANGED pending
            [] o = "no_captions" ->
                 /\ ~wrote /\ ~overwrite
                 /\ exists' = [exists EXCEPT ![p] = TRUE]
                 /\ audio_file' = [audio_file EXCEPT ![p] = TRUE]
                 /\ pc' = [pc EXCEPT ![c] = "isfile"]
                 /\ UNCHANGED <<subtitle_file, pending>>
            [] o = "DownloadError" ->
                 /\ IF wrote
                    THEN /\ exists' = [exists EXCEPT ![p] = TRUE]
                         /\ subtitle_file' = [subtitle_file EXCEPT ![p] = track]
                    ELSE /\ ~overwrite
                         /\ UNCHANGED <<exists, subtitle_file>>
                 /\ pending' = [pending EXCEPT ![c] = ExtractionFailed]
                 /\ pc' = [pc EXCEPT ![c] = AfterTry(ExtractionFailed)]
                 /\ UNCHANGED audio_file
            [] o = "Exception" ->
                 /\ ~wrote /\ ~overwrite
                 /\ pending' = [pending EXCEPT ![c] = ExceptException(Raised("Exception"))]
                 /\ pc' = [pc EXCEPT ![c] = AfterTry(ExceptException(Raised("Exception")))]
                 /\ UNCHANGED fsVars
  /\ UNCHANGED <<cleanerVars, opened, artifact, subtitles, close_invoked,
                 cleanup_error, outcome>>

\* Lines 73-76 and 89-90: os.path.isfile(<output_path>/file.en.vtt).  When
\* there is no file, line 90 raises the 404 inside the try of line 68, and
\* the handler of line 94 receives it.
IsFile(c) ==
  LET p == output_path(c) IN
  /\ pc[c] = "isfile"
  /\ IF exists[p] /\ subtitle_file[p] # 0
     THEN /\ artifact' = [artifact EXCEPT ![c] = "present"]
          /\ pc' = [pc EXCEPT ![c] = "read"]
          /\ UNCHANGED pending
     ELSE /\ artifact' = [artifact EXCEPT ![c] = "absent"]
          /\ pending' = [pending EXCEPT ![c] = ExceptException(NotFound)]
          /\ pc' = [pc EXCEPT ![c] = AfterTry(ExceptException(NotFound))]
  /\ UNCHANGED <<cleanerVars, fsVars, opened, extraction, extract_calls,
                 subtitles, close_invoked, cleanup_error, outcome>>

\* Lines 78-79: open and read the file; FileNotFoundError when it has been
\* removed since line 76, which line 94 turns into the 500.
ReadFile(c) ==
  LET p == output_path(c) IN
  /\ pc[c] = "read"
  /\ IF exists[p] /\ subtitle_file[p] # 0
     THEN /\ subtitles' = [subtitles EXCEPT ![c] = subtitle_file[p]]
          /\ pc' = [pc EXCEPT ![c] = "clean"]
          /\ UNCHANGED pending
     ELSE /\ pending' = [pending EXCEPT ![c] = ExceptException(Raised("FileNotFoundError"))]
          /\ pc' = [pc EXCEPT ![c] = AfterTry(ExceptException(Raised("FileNotFoundError")))]
          /\ UNCHANGED subtitles
  /\ UNCHANGED <<cleanerVars, fsVars, opened, extraction, extract_calls,
                 artifact, close_invoked, cleanup_error, outcome>>

\* Lines 82-87: clean the text that was read and return the dict (see
\* ResponseBody for its content).
CleanText(c) ==
  /\ pc[c] = "clean"
  /\ LET result == Returned(subtitles[c])
     IN  /\ pending' = [pending EXCEPT ![c] = result]
         /\ pc' = [pc EXCEPT ![c] = AfterTry(result)]
  /\ UNCHANGED <<cleanerVars, fsVars, opened, extraction, extract_calls,
                 artifact, subtitles, close_invoked, cleanup_error, outcome>>

\* Lines 119 and 43: cleanup_files is invoked and tests os.path.exists.
CleanupExists(c) ==
  LET p == output_path(c) IN
  /\ pc[c] = "cleanup_exists"
  /\ close_invoked' = [close_invoked EXCEPT ![c] = TRUE]
  /\ pc' = [pc EXCEPT ![c] = IF exists[p] THEN "rmtree" ELSE "return"]
  /\ UNCHANGED <<cleanerVars, fsVars, opened, extraction, extract_calls,
                 artifact, subtitles, pending, cleanup_error, outcome>>

\* Line 44, first half of shutil.rmtree: list the directory and unlink its
\* entries; FileNotFoundError when the directory has gone since line 43.
RmtreeUnlink(c) ==
  LET p == output_path(c) IN
  /\ pc[c] = "rmtree"
  /\ IF exists[p]
     THEN /\ subtitle_file' = [subtitle_file EXCEPT ![p] = 0]
          /\ audio_file' = [audio_file EXCEPT ![p] = FALSE]
          /\ pc' = [pc EXCEPT ![c] = "rmdir"]
          /\ UNCHANGED cleanup_error
     ELSE /\ cleanup_error' = [cleanup_error EXCEPT ![c] = "FileNotFoundError"]
          /\ pc' = [pc EXCEPT ![c] = "return"]
          /\ UNCHANGED <<subtitle_file, audio_file>>
  /\ UNCHANGED <<cleanerVars, exists, opened, extraction, extract_calls,
                 artifact, subtitles, pending, close_invoked, outcome>>

\* Line 44, second half of shutil.rmtree: os.rmdir of the directory, which
\* raises FileNotFoundError when it has gone and OSError (ENOTEMPTY) when a
\* file has been written into it since the entries were unlinked.
RmtreeRmdir(c) ==
  LET p == output_path(c) IN
  /\ pc[c] = "rmdir"
  /\ pc' = [pc EXCEPT ![c] = "return"]
  /\ IF ~exists[p]
     THEN /\ cleanup_error' = [cleanup_error EXCEPT ![c] = "FileNotFoundError"]
          /\ UNCHANGED exists
     ELSE IF subtitle_file[p] # 0 \/ audio_file[p]
     THEN /\ cleanup_error' = [cleanup_error EXCEPT ![c] = "OSError"]
          /\ UNCHANGED exists
     ELSE /\ exists' = [exists EXCEPT ![p] = FALSE]
          /\ UNCHANGED cleanup_error
  /\ UNCHANGED <<cleanerVars, subtitle_file, audio_file, opened, extraction,
                 extract_calls, artifact, subtitles, pending, close_invoked,
                 outcome>>

\* Lines 114-119 after the finally block: the caller receives the result.
Return(c) ==
  /\ pc[c] = "return"
  /\ outcome' = [outcome EXCEPT ![c] = Surface(pending[c], cleanup_error[c])]
  /\ pc' = [pc EXCEPT ![c] = "done"]
  /\ UNCHANGED <<cleanerVars, fsVars, opened, extraction, extract_calls,
                 artifact, subtitles, pending, close_invoked, cleanup_error>>

\* download(url) (lines 102-119), one step of call c.
download(c) ==
  \/ PathExists(c)
  \/ MakeDirs(c)
  \/ ExtractInfo(c)
  \/ IsFile(c)
  \/ ReadFile(c)
  \/ CleanText(c)
  \/ CleanupExists(c)
  \/ RmtreeUnlink(c)
  \/ RmtreeRmdir(c)
  \/ Return(c)

Init == InitCleaner /\ InitCalls

Next == \E c \in Calls : download(c)

Spec == Init /\ [][Next]_vars

\* Every call that has started keeps running: each is a request a worker
\* is executing, and extract_info returns or raises.
FairSpec == Spec /\ \A c \in Calls : WF_vars(download(c))

\* ------------------------------------------------------------------------
\* Properties of a call
\* ------------------------------------------------------------------------

\* The step in which call c hands its result to the caller.
Returns(c) == pc[c] = "return" /\ pc'[c] = "done"

\* Call c is between its session-open and its session-close.
InSession(c) == opened[c] /\ ~close_invoked[c] /\ pc[c] # "start"

\* C1: whatever the outcome of a call, the workspace directory does not
\* exist at the moment the call returns its result or error.
C1_WorkspaceGoneAtReturn ==
  [][\A c \in Calls : Returns(c) => ~exists'[output_path(c)]]_vars

\* C2: when the extraction returned without failure and no caption file is
\* at <workspace>/file.en.vtt, the caller receives the 404 "No subtitles
\* found for this video." and no other classification.
C2_MissingArtifactIsNotFound ==
  \A c \in Calls :
    (/\ pc[c] = "done"
     /\ extraction[c] \in {"captions", "no_captions"}
     /\ artifact[c] = "absent")
      => outcome[c] = NotFound

\* C3: when the extraction raises DownloadError, the caller receives the
\* 400, extract_info was invoked once, and the workspace directory is gone
\* when the call returns.
C3_ExtractionFailureIsBadRequest ==
  [][\A c \in Calls :
       (Returns(c) /\ extraction[c] = "DownloadError")
         => /\ outcome'[c] = ExtractionFailed
            /\ extract_calls'[c] = 1
            /\ ~exists'[output_path(c)]]_vars

\* C4: no call reads a caption track another call wrote, overwrites or
\* unlinks another call's track, or removes the directory while another
\* call is in its session.
C4_CallsAreIsolated ==
  [][\A c \in Calls :
       LET p == output_path(c) IN
       /\ subtitles'[c] \in {0, c}
       /\ (pc[c] = "extract" /\ subtitle_file'[p] = c) => subtitle_file[p] \in {0, c}
       /\ (pc[c] = "rmtree" /\ pc'[c] = "rmdir") => subtitle_file[p] \in {0, c}
       /\ (pc[c] = "rmdir" /\ exists[p] /\ ~exists'[p])
            => \A d \in Calls \ {c} : ~(InSession(d) /\ output_path(d) = p)]_vars

\* C5: the workspace directory of a call exists in every state between the
\* call's open and its close, and does not exist before the open or after
\* the close.
C5_SessionDirectory ==
  \A c \in Calls :
    /\ InSession(c) => exists[output_path(c)]
    /\ pc[c] \in {"start", "return", "done"} => ~exists[output_path(c)]

\* C6: cleanup_files has been invoked before any result or error of a call
\* is surfaced, on every exit path, and once the open of a call has
\* succeeded cleanup_files is eventually invoked.
C6_CloseIsExitGate ==
  /\ [](\A c \in Calls : pc[c] \in {"return", "done"} => close_invoked[c])
  /\ \A c \in Calls : opened[c] ~> close_invoked[c]

\* A call that failed with a classified error after its open succeeded has
\* returned, and cleanup_files had been invoked.
C6_Witness ==
  \E c \in Calls :
    /\ pc[c] = "done"
    /\ opened[c]
    /\ close_invoked[c]
    /\ outcome[c].kind = "HTTPException"

\* C7: when a call has failed with an HTTPException (400, 404 or 500) and
\* cleanup_files then raises, the caller still receives that HTTPException.
C7_CloseFailureDoesNotMask ==
  \A c \in Calls :
    (pc[c] = "done" /\ pending[c].kind = "HTTPException")
      => outcome[c] = pending[c]

\* C8: a failure that is neither an extraction failure nor a missing
\* artifact reaches the caller as HTTPException 500 carrying the message of
\* the underlying error.
C8_OtherFailuresAreInternalError ==
  \A c \in Calls :
    (/\ pc[c] = "done"
     /\ outcome[c].kind # "return"
     /\ extraction[c] # "DownloadError"
     /\ artifact[c] # "absent")
      => /\ outcome[c].kind = "HTTPException"
         /\ outcome[c].status_code = 500
         /\ outcome[c].cause # ""

\* ------------------------------------------------------------------------
\* Properties of the cleaner
\* ------------------------------------------------------------------------

\* The text carries none of the three removable patterns.
NoPatterns(s) == ~ContainsTag(s) /\ ~ContainsTimestamp(s) /\ ~ContainsAlign(s)

\* The text begins with one of the header tokens of lines 20-24.
StartsWithHeader(s) ==
  \E h \in {WEBVTT, Kind, Language} : Len(s) >= Len(h) /\ SubSeq(s, 1, Len(h)) = h

\* C9 as stated: for every document of tags, cue-timing ranges, positioning
\* directives, text and whitespace, the output holds none of the three
\* patterns, no run of whitespace, and no leading or trailing whitespace.
C9_MarkupExhaustive ==
  stage # "raw"
    => /\ NoPatterns(clean_text)
       /\ ~HasWhitespaceRun(clean_text)
       /\ IsTrimmed(clean_text)

\* C9 amended: for every document the output holds no tag, no run of
\* whitespace and no leading or trailing whitespace; it holds no cue-timing
\* range and no positioning directive when the document is made of whole
\* tags, whole ranges, whole directives, whitespace and letters.
C9_MarkupExhaustiveOnWholeElements ==
  stage # "raw"
    => /\ ~ContainsTag(clean_text)
       /\ ~HasWhitespaceRun(clean_text)
       /\ IsTrimmed(clean_text)
       /\ IsWhole(doc) => (~ContainsTimestamp(clean_text) /\ ~ContainsAlign(clean_text))

\* A document of whole elements that holds a tag, a range and a directive
\* has been cleaned.
C9_Witness ==
  /\ stage = "cleaned"
  /\ IsWhole(doc)
  /\ \E i, j, k \in 1..Len(doc) : doc[i] = 1 /\ doc[j] = 2 /\ doc[k] = 3

\* C10 as stated: for every input with no markup and no timestamps,
\* cleaning the cleaned text gives the cleaned text.
C10_Idempotent ==
  (stage = "recleaned" /\ NoPatterns(Text(doc)))
    => reclean_text = clean_text

\* C10 amended: cleaning the cleaned text gives the cleaned text whenever
\* the cleaned text holds none of the three patterns and does not begin
\* with 'WEBVTT', 'Kind:' or 'Language:'.
C10_IdempotentOnCleanText ==
  (/\ stage = "recleaned"
   /\ NoPatterns(clean_text)
   /\ ~StartsWithHeader(clean_text))
    => reclean_text = clean_text

\* A document that the first pass changed into a non-empty clean text, with
\* none of the patterns and no header token at its start, was cleaned again.
C10_Witness ==
  /\ stage = "recleaned"
  /\ NoPatterns(clean_text)
  /\ ~StartsWithHeader(clean_text)
  /\ clean_text # <<>>
  /\ clean_text # Text(doc)
  /\ ~NoPatterns(Text(doc))

\* C11: for a well-formed caption document (optional header lines, then
\* cue blocks of a timing line with an optional positioning directive and
\* lines of text with inline tags), clean_subtitles returns the cue texts
\* without their tags, joined by single spaces and trimmed.
C11_WellFormedDocumentGivesCueText ==
  (stage # "raw" /\ doc \in WellFormedDocuments)
    => clean_text = JoinWords(Words(doc))

\* The document 'WEBVTT\nKind: captions\nLanguage: en\n\n00:00:01.000 -->
\* 00:00:02.000 align:start position:0%\nHello <c>world</c>\n' has been
\* cleaned into 'Hello world'.
C11_Witness ==
  /\ stage = "cleaned"
  /\ doc = <<9, 10, 11, 6, 2, 5, 3, 6, 12>>
  /\ clean_text = <<"H","e","l","l","o"," ","w","o","r","l","d">>

HasPrefix(line, prefix) ==
  Len(line) >= Len(prefix) /\ SubSeq(line, 1, Len(prefix)) = prefix

\* Number of lines the three header checks drop: each check is applied once,
\* in the order WEBVTT, Kind:, Language:, to the line that is first after the
\* earlier drops.
DroppedHeaderLines(lines) ==
  LET d1 == IF Len(lines) >= 1 /\ HasPrefix(lines[1], WEBVTT) THEN 1 ELSE 0
      d2 == IF Len(lines) >= d1 + 1 /\ HasPrefix(lines[d1 + 1], Kind)
            THEN 1 ELSE 0
      d3 == IF Len(lines) >= d1 + d2 + 1
               /\ HasPrefix(lines[d1 + d2 + 1], Language)
            THEN 1 ELSE 0
  IN  d1 + d2 + d3

\* C12: header stripping drops at most three lines, the checks for WEBVTT,
\* Kind: and Language: being applied once each, in that order and
\* independently, to the current first line; the lines that remain are the
\* rest of the input unchanged, and the text returned is the cleaning of
\* those lines. A document whose first line starts with WEBVTT and whose
\* second line starts with Language: loses exactly those two lines.
C12_HeaderChecksAreIndependent ==
  stage # "raw" =>
    LET lines == splitlines(Text(doc))
        out == StripHeader(lines)
        n == DroppedHeaderLines(lines)
    IN  /\ n <= 3
        /\ out = SubSeq(lines, n + 1, Len(lines))
        /\ clean_text = strip(sub_whitespace(sub_align(sub_timestamps(
                          sub_tags(join(SubSeq(lines, n + 1, Len(lines))))))))
        /\ (/\ Len(lines) >= 2
            /\ HasPrefix(lines[1], WEBVTT)
            /\ HasPrefix(lines[2], Language))
             => out = SubSeq(lines, 3, Len(lines))

\* 'WEBVTT\nLanguage: en\na' has been cleaned: both header lines are gone and
\* the body line is the output.
C12_Witness ==
  /\ stage = "cleaned"
  /\ doc = <<9, 11, 4>>
  /\ clean_text = <<"a">>

\* ------------------------------------------------------------------------
\* Properties of the workspace steps and of the order of a call
\* ------------------------------------------------------------------------

\* C13: the open step (os.path.exists, then os.makedirs) completes without
\* error in every interleaving of calls, whether or not another call
\* created the directory before or during it.
C13_OpenRaisesNoError ==
  \A c \in Calls : pending[c] # Raised("FileExistsError")

\* C14: cleanup_files (os.path.exists, then shutil.rmtree) completes
\* without error in every interleaving of calls, including when another
\* call removes the directory before or during it.
C14_CloseRaisesNoError ==
  \A c \in Calls : cleanup_error[c] = ""

\* Position of a step in the order INIT, WORKSPACE_OPEN, EXTRACTING,
\* LOCATING_ARTIFACT, READING, CLEANING, DONE (the close and the return to
\* the caller are parts of DONE).
StateOrder(step) ==
  CASE step = "start" -> 1
    [] step = "makedirs" -> 2
    [] step = "extract" -> 3
    [] step = "isfile" -> 4
    [] step = "read" -> 5
    [] step = "clean" -> 6
    [] step = "cleanup_exists" -> 7
    [] step = "rmtree" -> 8
    [] step = "rmdir" -> 9
    [] step = "return" -> 10
    [] step = "done" -> 11

\* C15: a call moves forward through INIT, WORKSPACE_OPEN, EXTRACTING,
\* LOCATING_ARTIFACT, READING, CLEANING, DONE; the artifact is looked up
\* only after the extraction returned without failure, read only after it
\* was found present, the cleaner runs only on text that was read, a
\* success result is produced only by the cleaning step, from the text
\* read, and a call that failed never surfaces a success result.
C15_StateOrder ==
  [][\A c \in Calls :
       /\ pc'[c] # pc[c] => StateOrder(pc'[c]) > StateOrder(pc[c])
       /\ (pc'[c] = "extract" /\ pc[c] # "extract")
            => pc[c] \in {"start", "makedirs"} /\ opened'[c]
       /\ (pc'[c] = "isfile" /\ pc[c] # "isfile")
            => /\ pc[c] = "extract"
               /\ extraction'[c] \in {"captions", "no_captions"}
       /\ artifact'[c] # artifact[c]
            => pc[c] = "isfile" /\ extraction[c] \in {"captions", "no_captions"}
       /\ (pc'[c] = "read" /\ pc[c] # "read")
            => pc[c] = "isfile" /\ artifact'[c] = "present"
       /\ subtitles'[c] # subtitles[c]
            => pc[c] = "read" /\ artifact[c] = "present"
       /\ (pc'[c] = "clean" /\ pc[c] # "clean")
            => pc[c] = "read" /\ subtitles'[c] # 0
       /\ (pending'[c].kind = "return" /\ pending'[c] # pending[c])
            => /\ pc[c] = "clean"
               /\ subtitles[c] # 0
               /\ pending'[c] = Returned(subtitles[c])
       /\ (Returns(c) /\ outcome'[c].kind = "return")
            => /\ pending[c].kind = "return"
               /\ cleanup_error[c] = ""
               /\ outcome'[c] = Returned(subtitles[c])
               /\ artifact[c] = "present"
               /\ extraction[c] \in {"captions", "no_captions"}
       /\ (Returns(c) /\ (pending[c].kind # "return" \/ cleanup_error[c] # ""))
            => outcome'[c].kind # "return"]_vars

\* One call has gone through every step and returned a success result; the
\* other failed after its extraction and returned an error.
C15_Witness ==
  \E c, d \in Calls :
    /\ pc[c] = "done" /\ outcome[c].kind = "return"
    /\ artifact[c] = "present" /\ subtitles[c] # 0
    /\ pc[d] = "done" /\ outcome[d].kind = "HTTPException"
    /\ extraction[d] # "none"

\* ------------------------------------------------------------------------
\* Positioning directives
\* ------------------------------------------------------------------------

\* End of 'align:start position:<number>%' at i, <number> being one or more
\* digits; 0 if there is none.
AlignNumberEnd(s, i) ==
  LET p == i + Len(AlignPrefix)
      S == {j \in (p + 1)..Len(s) :
              s[j] = "%" /\ \A k \in p..(j - 1) : IsDigit(s[k])}
  IN  IF p <= Len(s) /\ SubSeq(s, i, p - 1) = AlignPrefix /\ S # {}
      THEN Min(S)
      ELSE 0

FirstAlignNumberFrom(s, i) ==
  LET S == {j \in i..Len(s) : AlignNumberEnd(s, j) > 0}
  IN  IF S = {} THEN 0 ELSE Min(S)

\* The text without its substrings 'align:start position:<number>%'.
SubAlignNumber[s \in Str] ==
  IF FirstAlignNumberFrom(s, 1) = 0 THEN s
  ELSE SubSeq(s, 1, FirstAlignNumberFrom(s, 1) - 1)
         \o SubAlignNumber[SubSeq(s, AlignNumberEnd(s, FirstAlignNumberFrom(s, 1)) + 1,
                                  Len(s))]

\* C16: the positioning pass removes exactly the substrings
\* 'align:start position:<number>%' with a numeric <number>; text after
\* 'align:start position:' that is not a number followed by '%' stays in
\* the output, up to the whitespace collapse.
C16_AlignRemovalIsNumericOnly ==
  stage # "raw" =>
    clean_text = strip(sub_whitespace(SubAlignNumber[
                   sub_timestamps(sub_tags(join(StripHeader(splitlines(Text(doc))))))]))

\* ------------------------------------------------------------------------
\* Origin of the text a call returns
\* ------------------------------------------------------------------------

\* C17: a call that returns success returns the cleaned text of a caption
\* file its own extraction wrote; a call whose extraction wrote no caption
\* file does not return success, whatever file.en.vtt another call left in
\* the workspace.
C17_ResultIsOwnArtifact ==
  \A c \in Calls :
    (pc[c] = "done" /\ outcome[c].kind = "return")
      => outcome[c].track = c /\ extraction[c] = "captions"

====
